---- MODULE Spec2Model ----
(***************************************************************************)
(* Model of the portfolio-ai chat backend.                                 *)
(*                                                                         *)
(* Three chat-handler variants exist in the repository:                    *)
(*   "server" : src/server.js            (memory, sanitize, enforcer)      *)
(*   "render" : src/unnamed/part_000:105-256 (memory, sanitize)            *)
(*   "static" : src/unnamed/part_000:1-103   (server persona, no memory)   *)
(* Each is a separate Node process; Init picks which one is running.       *)
(*                                                                         *)
(* Text is a sequence of one-character strings.  Characters outside ASCII  *)
(* (the emoji of the literals) are written as one token: "(warn)", "(x)",  *)
(* "(pin)".                                                                *)
(***************************************************************************)
EXTENDS Integers, Sequences, FiniteSets, TLC

VARIABLES variant, scope, chatMemory, reqs, pushed, calls, lastRoute, fnCall

vars ==
    <<variant, scope, chatMemory, reqs, pushed, calls, lastRoute, fnCall>>

(***************************************************************************)
(* Bounds of the model.                                                    *)
(*                                                                         *)
(* Two families of behaviours are explored (scope, fixed by Init): "deep"  *)
(* runs are long enough to fill and overrun the memory and draw their      *)
(* inputs from the narrow sets; "wide" runs are short and draw from all    *)
(* the inputs.  A third family, "texts", is one chat request that the      *)
(* provider answers with any text made of up to MaxPieces pieces; it is    *)
(* explored on its own (TextSpec).                                         *)
(***************************************************************************)
MaxReq == 4        \* POST /chat requests in a deep behaviour
MaxWideReq == 2    \* POST /chat requests in a wide behaviour
MaxInFlight == 2   \* requests whose provider call is pending at once
MaxPieces == 4     \* pieces a text under test is made of

(***************************************************************************)
(* Program constants.                                                      *)
(***************************************************************************)
MAX_MEMORY_MESSAGES == 6

(***************************************************************************)
(* Text helpers: the String.prototype methods the code uses.               *)
(***************************************************************************)
WhiteSpace == {" ", "\n", "\t", "\r"}
LineTerminators == {"\n", "\r"}

\* the i flag of the script regex: case folding of the letters it names
Lower(c) ==
    CASE c = "S" -> "s" [] c = "C" -> "c" [] c = "R" -> "r"
      [] c = "I" -> "i" [] c = "P" -> "p" [] c = "T" -> "t"
      [] OTHER -> c

Min(S) == CHOOSE x \in S : \A y \in S : x <= y

\* s.substring(a - 1, b) in 1-based inclusive indices; empty when a > b
Sub(s, a, b) == IF a > b THEN <<>> ELSE SubSeq(s, a, b)

\* pat occurs in s starting at index i (case folded when fold is TRUE)
MatchAt(s, i, pat, fold) ==
    /\ i >= 1
    /\ i + Len(pat) - 1 <= Len(s)
    /\ \A k \in 1..Len(pat) :
          (IF fold THEN Lower(s[i + k - 1]) ELSE s[i + k - 1]) = pat[k]

\* String.prototype.includes
Includes(s, pat) == \E i \in 1..Len(s) : MatchAt(s, i, pat, FALSE)

\* String.prototype.trim
Trim(s) ==
    LET keep == {i \in 1..Len(s) : s[i] \notin WhiteSpace}
    IN  IF keep = {} THEN <<>>
        ELSE Sub(s, Min(keep), CHOOSE x \in keep : \A y \in keep : y <= x)

(***************************************************************************)
(* sanitize                                                                *)
(*   text.replace(/<script.*?>.*?<\/script>/gi, "")                        *)
(*       .replace(/[<>]/g, "").trim()                                      *)
(***************************************************************************)
SCRIPT_OPEN == <<"<", "s", "c", "r", "i", "p", "t">>
SCRIPT_CLOSE == <<"<", "/", "s", "c", "r", "i", "p", "t", ">">>

\* '.' of the regex matches anything but a line terminator
NoLineBreak(s, a, b) == \A k \in a..b : s[k] \notin LineTerminators

\* Index of the last character of the match of the script regex that starts
\* at i, or 0 when the regex does not match at i.  Both '.*?' are lazy: the
\* first '>' that admits a later closing tag, then the first closing tag.
ScriptMatchEnd(s, i) ==
    IF ~MatchAt(s, i, SCRIPT_OPEN, TRUE) THEN 0
    ELSE
      LET closes(j) == {k \in (j + 1)..Len(s) :
                           /\ MatchAt(s, k, SCRIPT_CLOSE, TRUE)
                           /\ NoLineBreak(s, j + 1, k - 1)}
          gts == {j \in (i + Len(SCRIPT_OPEN))..Len(s) :
                           /\ s[j] = ">"
                           /\ NoLineBreak(s, i + Len(SCRIPT_OPEN), j - 1)
                           /\ closes(j) # {}}
      IN  IF gts = {} THEN 0
          ELSE Min(closes(Min(gts))) + Len(SCRIPT_CLOSE) - 1

RECURSIVE StripScripts(_, _)
\* the first replace: global, leftmost, non-overlapping matches removed
StripScripts(s, i) ==
    IF i > Len(s) THEN <<>>
    ELSE LET e == ScriptMatchEnd(s, i)
         IN  IF e > 0 THEN StripScripts(s, e + 1)
             ELSE <<s[i]>> \o StripScripts(s, i + 1)

\* the second replace: every '<' and '>' removed
StripAngles(s) == SelectSeq(s, LAMBDA c : c \notin {"<", ">"})

\* mutant: the second replace left out
sanitizeKeepAngles(text) == Trim(StripScripts(text, 1))

sanitize(text) == Trim(StripAngles(StripScripts(text, 1)))

(***************************************************************************)
(* enforceMarkdownStructure                                                *)
(***************************************************************************)
\* mutant: the heading without its "##"
HEADING_PLAIN == <<"R", "e", "s", "p", "o", "n", "s", "e", "\n", "\n">>

HEADING ==
    <<"#", "#", " ", "(pin)", " ", "R", "e", "s", "p", "o", "n", "s", "e",
      "\n", "\n">>

Punct == {".", "?", "!"}

\* Index of the last character of the match of /[.?!]\s+/ that starts at i,
\* or 0 when it does not match there ('\s+' is greedy).
SepEnd(s, i) ==
    IF i + 1 <= Len(s) /\ s[i] \in Punct /\ s[i + 1] \in WhiteSpace
    THEN LET stop == {k \in (i + 1)..Len(s) :
                         k = Len(s) \/ s[k + 1] \notin WhiteSpace}
         IN  Min({k \in stop : \A m \in (i + 1)..k : s[m] \in WhiteSpace})
    ELSE 0

RECURSIVE SplitFrom(_, _, _)
\* text.split(/[.?!]\s+/): p is the start of the current fragment, q the
\* position where the next separator match is attempted
SplitFrom(s, p, q) ==
    IF q > Len(s) THEN <<Sub(s, p, Len(s))>>
    ELSE LET e == SepEnd(s, q)
         IN  IF e > 0 THEN <<Sub(s, p, q - 1)>> \o SplitFrom(s, e + 1, e + 1)
             ELSE SplitFrom(s, p, q + 1)

\* mutant: .filter(Boolean) left out
SplitLinesKeepEmpty(s) == SplitFrom(s, 1, 1)

\* .filter(Boolean): empty fragments dropped
SplitLines(s) == SelectSeq(SplitFrom(s, 1, 1), LAMBDA f : f # <<>>)

RECURSIVE Bullets(_)
Bullets(lines) ==
    IF lines = <<>> THEN <<>>
    ELSE <<"-", " ">> \o Trim(Head(lines)) \o <<"\n">> \o Bullets(Tail(lines))

structured(text) ==
    \/ Includes(text, <<"#", "#">>)
    \/ Includes(text, <<"-", " ">>)
    \/ Includes(text, <<"*", "*">>)

enforceMarkdownStructure(text) ==
    IF text = <<>> THEN <<>>
    ELSE IF structured(text) THEN text
    ELSE HEADING \o Bullets(SplitLines(text))

(***************************************************************************)
(* Literal reply texts of the three variants.                              *)
(***************************************************************************)
INVALID_REPLY_SERVER ==
    <<"#", "#", " ", "(warn)", " ", "I", "n", "v", "a", "l", "i", "d", " ",
      "R", "e", "q", "u", "e", "s", "t", "\n", "-", " ", "M", "e", "s", "s",
      "a", "g", "e", " ", "m", "i", "s", "s", "i", "n", "g", " ", "o", "r",
      " ", "i", "n", "v", "a", "l", "i", "d">>
EMPTY_REPLY_SERVER ==
    <<"#", "#", " ", "(warn)", " ", "A", "I", " ", "E", "r", "r", "o", "r",
      "\n", "-", " ", "E", "m", "p", "t", "y", " ", "r", "e", "s", "p", "o",
      "n", "s", "e", " ", "r", "e", "c", "e", "i", "v", "e", "d">>
ERROR_REPLY_SERVER ==
    <<"\n", "#", "#", " ", "(x)", " ", "S", "e", "r", "v", "e", "r", " ",
      "E", "r", "r", "o", "r", "\n", "-", " ", "A", "I", " ", "b", "a", "c",
      "k", "e", "n", "d", " ", "t", "e", "m", "p", "o", "r", "a", "r", "i",
      "l", "y", " ", "u", "n", "a", "v", "a", "i", "l", "a", "b", "l", "e",
      "\n", "-", " ", "P", "l", "e", "a", "s", "e", " ", "c", "l", "i", "c",
      "k", " ", "*", "*", "R", "e", "t", "r", "y", "*", "*", "\n", " ", " ",
      " ", " ", " ", " ">>
UNHANDLED_REPLY_SERVER ==
    <<"#", "#", " ", "(x)", " ", "U", "n", "e", "x", "p", "e", "c", "t", "e",
      "d", " ", "S", "e", "r", "v", "e", "r", " ", "E", "r", "r", "o", "r",
      "\n", "-", " ", "P", "l", "e", "a", "s", "e", " ", "t", "r", "y", " ",
      "a", "g", "a", "i", "n", " ", "l", "a", "t", "e", "r">>
INVALID_REPLY_RENDER ==
    <<"I", "n", "v", "a", "l", "i", "d", " ", "r", "e", "q", "u", "e", "s",
      "t">>
EMPTY_REPLY_RENDER ==
    <<"A", "I", " ", "f", "a", "i", "l", "e", "d", " ", "t", "o", " ", "r",
      "e", "s", "p", "o", "n", "d">>
ERROR_REPLY_RENDER ==
    <<"S", "e", "r", "v", "e", "r", " ", "e", "r", "r", "o", "r", ".", " ",
      "P", "l", "e", "a", "s", "e", " ", "r", "e", "t", "r", "y", ".">>
UNHANDLED_REPLY_RENDER ==
    <<"U", "n", "e", "x", "p", "e", "c", "t", "e", "d", " ", "s", "e", "r",
      "v", "e", "r", " ", "e", "r", "r", "o", "r">>
INVALID_REPLY_STATIC ==
    <<"(warn)", " ", "M", "e", "s", "s", "a", "g", "e", " ", "m", "i", "s",
      "s", "i", "n", "g", " ", "h", "a", "i", ".">>
EMPTY_REPLY_STATIC ==
    <<"(warn)", " ", "A", "I", " ", "r", "e", "s", "p", "o", "n", "s", "e",
      " ", "g", "e", "n", "e", "r", "a", "t", "e", " ", "n", "a", "h", "i",
      " ", "h", "o", " ", "p", "a", "y", "a", ".">>
ERROR_REPLY_STATIC ==
    <<"(warn)", " ", "S", "e", "r", "v", "e", "r", " ", "i", "s", "s", "u",
      "e", " ", "h", "o", " ", "g", "a", "y", "a", ".", " ", "T", "h", "o",
      "d", "i", " ", "d", "e", "r", " ", "b", "a", "a", "d", " ", "t", "r",
      "y", " ", "k", "a", "r", "o", ".">>
\* the server-owned system message of the static-hosting variant; the
\* template literal is kept as one token
PERSONA == <<"(You are Atharva's AI Assistant. ...)">>

Variants == {"server", "render", "static"}
HasMemory(v) == v \in {"server", "render"}

INVALID_REPLY(v) ==
    CASE v = "server" -> INVALID_REPLY_SERVER
      [] v = "render" -> INVALID_REPLY_RENDER
      [] OTHER -> INVALID_REPLY_STATIC
EMPTY_REPLY(v) ==
    CASE v = "server" -> EMPTY_REPLY_SERVER
      [] v = "render" -> EMPTY_REPLY_RENDER
      [] OTHER -> EMPTY_REPLY_STATIC
ERROR_REPLY(v) ==
    CASE v = "server" -> ERROR_REPLY_SERVER
      [] v = "render" -> ERROR_REPLY_RENDER
      [] OTHER -> ERROR_REPLY_STATIC
UNHANDLED_REPLY(v) ==
    IF v = "server" THEN UNHANDLED_REPLY_SERVER ELSE UNHANDLED_REPLY_RENDER

(***************************************************************************)
(* JSON values of a request body field, and what the provider returns.     *)
(***************************************************************************)
Undefined == [t |-> "undefined", s |-> <<>>, n |-> 0]
Str(x) == [t |-> "string", s |-> x, n |-> 0]
Num(k) == [t |-> "number", s |-> <<>>, n |-> k]
\* the field of a body that express.json() could not parse
Unparsed == [t |-> "unparsed", s |-> <<>>, n |-> 0]

\* JavaScript truthiness of a body field
Truthy(v) ==
    \/ v.t = "string" /\ v.s # <<>>
    \/ v.t = "number" /\ v.n # 0

\* a non-string value as it is passed on
Wire(v) == IF v.t = "string" THEN v.s ELSE <<"(number)">>

AllMessages ==
    { Undefined, Num(123), Str(<<>>),
      Str(<<"<", "b", ">", "h", "i", "<", "/", "b", ">">>),
      Str(<<" ", "<", ">", " ">>) }

AllSystems ==
    { Undefined, Num(123),
      Str(<<"B", "e", " ", "<", "i", ">", "b", "r", "i", "e", "f", "<", "/",
            "i", ">">>),
      Str(<<"<", ">">>) }

\* resolved value of groq.chat.completions.create: undefined, an object
\* without choices[0].message.content, or one with that content
NoCompletion == [kind |-> "undefined", content |-> <<>>]
NoChoices == [kind |-> "nochoices", content |-> <<>>]
Content(x) == [kind |-> "content", content |-> x]
\* the call has not settled yet (or was never issued); the call rejected
Pending == [kind |-> "pending", content |-> <<>>]
Rejected == [kind |-> "rejected", content |-> <<>>]

\* What a throw or a rejected promise carries: the value bound to 'error' in
\* the catch block and to 'err' in the error middleware.
NoError == [name |-> "none", message |-> <<>>]
Err(name, message) == [name |-> name, message |-> message]

CONNECTION_ERROR ==
    Err("APIConnectionError",
        <<"C", "o", "n", "n", "e", "c", "t", "i", "o", "n", " ", "e", "r",
        "r", "o", "r", ".">>)
AUTH_ERROR ==
    Err("AuthenticationError",
        <<"4", "0", "1", " ", "I", "n", "v", "a", "l", "i", "d", " ", "A",
        "P", "I", " ", "K", "e", "y">>)
\* (123).replace(...) in sanitize
REPLACE_TYPE_ERROR ==
    Err("TypeError",
        <<"t", "e", "x", "t", ".", "r", "e", "p", "l", "a", "c", "e", " ",
        "i", "s", " ", "n", "o", "t", " ", "a", " ", "f", "u", "n", "c", "t",
        "i", "o", "n">>)
\* undefined.choices in the static-hosting variant
CHOICES_TYPE_ERROR ==
    Err("TypeError",
        <<"C", "a", "n", "n", "o", "t", " ", "r", "e", "a", "d", " ", "p",
        "r", "o", "p", "e", "r", "t", "i", "e", "s", " ", "o", "f", " ", "u",
        "n", "d", "e", "f", "i", "n", "e", "d">>)
\* body-parser on malformed JSON
BODY_PARSE_ERROR ==
    Err("SyntaxError",
        <<"U", "n", "e", "x", "p", "e", "c", "t", "e", "d", " ", "t", "o",
        "k", "e", "n">>)

AllProviderErrors == {CONNECTION_ERROR, AUTH_ERROR}
NarrowProviderErrors == {CONNECTION_ERROR}

AllCompletions ==
    { NoCompletion, NoChoices, Content(<<>>),
      Content(<<"A", ".", " ", "B", ".", " ", "C", ".">>) }

RECURSIVE Concats(_, _)
\* the texts made of at most n of the pieces
Concats(pieces, n) ==
    IF n = 0 THEN {<<>>}
    ELSE LET shorter == Concats(pieces, n - 1)
         IN  shorter \cup {p \o t : p \in pieces, t \in shorter}

EnforcePieces ==
    { <<"A">>, <<".">>, <<"?">>, <<"!">>, <<" ">>, <<"\n">>, <<"-">>,
      <<"*">>, <<"#">> }

A_B_C == <<"A", ".", " ", "B", ".", " ", "C", ".">>
BOLD == <<"*", "*", "b", "o", "l", "d", "*", "*">>

EnforceInputs == Concats(EnforcePieces, MaxPieces) \cup {A_B_C, BOLD}

\* the provider answers with any of the texts
TextCompletions == {Content(t) : t \in EnforceInputs}

NarrowMessages ==
    { Undefined, Str(<<"<", "b", ">", "h", "i", "<", "/", "b", ">">>) }
NarrowSystems ==
    { Undefined,
      Str(<<"B", "e", " ", "<", "i", ">", "b", "r", "i", "e", "f", "<", "/",
            "i", ">">>) }
NarrowCompletions ==
    { Content(<<"A", ".", " ", "B", ".", " ", "C", ".">>) }

\* the families Init chooses from ("texts" is started by TextInit)
Scopes == {"deep", "wide"}
Messages == IF scope = "wide" THEN AllMessages ELSE NarrowMessages
Systems == IF scope = "wide" THEN AllSystems ELSE NarrowSystems
Completions ==
    CASE scope = "deep" -> NarrowCompletions
      [] scope = "wide" -> AllCompletions
      [] scope = "texts" -> TextCompletions
ProviderErrors ==
    IF scope = "wide" THEN AllProviderErrors ELSE NarrowProviderErrors
\* a "texts" behaviour is one chat request
ReqLimit ==
    CASE scope = "deep" -> MaxReq
      [] scope = "wide" -> MaxWideReq
      [] scope = "texts" -> 1

(***************************************************************************)
(* State.                                                                  *)
(*   variant    : which handler file the process runs                      *)
(*   scope      : which family of behaviours is explored                   *)
(*   chatMemory : the process-wide array of turns                          *)
(*   reqs       : per POST /chat request, the handler's position (pc), the *)
(*                body it received, the list handed to the provider, how   *)
(*                the provider call settled (outcome), the value caught    *)
(*                (error), and the response written to res                 *)
(*   pushed     : history of chatMemory.push calls: whose turn, which role *)
(*   calls      : number of groq.chat.completions.create invocations       *)
(*   lastRoute  : the route of the request handled last                    *)
(*   fnCall     : a direct call of sanitize or enforceMarkdownStructure:   *)
(*                function, argument, return value (no such call is made   *)
(*                while the server runs)                                   *)
(* A turn carries the id of the request that created it (rid), which the   *)
(* program does not store; rid 0 is the server itself.                     *)
(***************************************************************************)
Rids == 1..(IF MaxReq > MaxWideReq THEN MaxReq ELSE MaxWideReq)

Turn(role, content, r) == [role |-> role, content |-> content, rid |-> r]

\* what identifies a turn: a request pushes one turn per role at most
Id(turn) == [role |-> turn.role, rid |-> turn.rid]

NewReq ==
    [pc |-> "new", message |-> Undefined, system |-> Undefined,
     outbound |-> <<>>, outcome |-> Pending, error |-> NoError, sent |-> 0,
     status |-> 0, reply |-> <<>>]

NoCall == [fn |-> "none", arg |-> <<>>, ret |-> <<>>, pc |-> "idle"]

Init ==
    /\ variant \in Variants
    /\ scope \in Scopes
    /\ chatMemory = <<>>
    /\ reqs = [r \in Rids |-> NewReq]
    /\ pushed = <<>>
    /\ calls = 0
    /\ lastRoute = "none"
    /\ fnCall = NoCall

InFlight == {r \in Rids : reqs[r].pc = "await"}

\* requests are numbered in order of arrival
IsNext(r) ==
    /\ r <= ReqLimit
    /\ reqs[r].pc = "new"
    /\ \A q \in 1..(r - 1) : reqs[q].pc # "new"

(***************************************************************************)
(* pushToMemory / pushMemory                                               *)
(***************************************************************************)
\* mutants: the capacity test left out; the newest turn dropped instead of
\* the oldest; unshift in place of push
pushToMemoryNoShift(mem, turn) == Append(mem, turn)

pushToMemoryPop(mem, turn) ==
    LET appended == Append(mem, turn)
    IN  IF Len(appended) > MAX_MEMORY_MESSAGES
        THEN SubSeq(appended, 1, MAX_MEMORY_MESSAGES)
        ELSE appended

pushToMemoryUnshift(mem, turn) ==
    LET prepended == <<turn>> \o mem
    IN  IF Len(prepended) > MAX_MEMORY_MESSAGES THEN Tail(prepended)
        ELSE prepended

pushToMemory(mem, turn) ==
    LET appended == Append(mem, turn)
    IN  IF Len(appended) > MAX_MEMORY_MESSAGES THEN Tail(appended)
        ELSE appended

(***************************************************************************)
(* Pieces of the chat handler.                                             *)
(***************************************************************************)
\* mutant: the typeof test left out
InvalidMessageNoTypeof(message) == ~Truthy(message)

\* !userMessageRaw || typeof userMessageRaw !== "string"
InvalidMessage(message) == ~Truthy(message) \/ message.t # "string"

\* sanitize(systemPromptRaw) calls text.replace: a TypeError unless a string
SanitizeThrows(system) == Truthy(system) /\ system.t # "string"

\* systemPromptRaw ? sanitize(systemPromptRaw) : null  (null shown as empty:
\* both are falsy in the test that follows)
SystemPrompt(system) == IF Truthy(system) THEN sanitize(system.s) ELSE <<>>

\* mutant: the system entry pushed after the memory
BuildMessagesSystemLast(systemPrompt, mem, r) ==
    mem \o (IF systemPrompt # <<>> THEN <<Turn("system", systemPrompt, r)>>
            ELSE <<>>)

\* mutant: only the turns of the request itself are sent
BuildMessagesOwnOnly(systemPrompt, mem, r) ==
    (IF systemPrompt # <<>> THEN <<Turn("system", systemPrompt, r)>>
     ELSE <<>>) \o SelectSeq(mem, LAMBDA t : t.rid = r)

\* mutant: the list is assembled from the memory as it was before the push
BuildMessagesBeforePush(systemPrompt, mem, r) ==
    (IF systemPrompt # <<>> THEN <<Turn("system", systemPrompt, r)>>
     ELSE <<>>) \o SubSeq(mem, 1, Len(mem) - 1)

\* messages = []; if (systemPrompt) push system entry; push(...chatMemory)
BuildMessages(systemPrompt, mem, r) ==
    (IF systemPrompt # <<>> THEN <<Turn("system", systemPrompt, r)>>
     ELSE <<>>) \o mem

\* mutant: the '|| fallback' left out
ExtractReplyNoFallback(completion, v) == completion.content

\* completion?.choices?.[0]?.message?.content || fallback
ExtractReply(completion, v) ==
    IF completion.kind = "content" /\ completion.content # <<>>
    THEN completion.content
    ELSE EMPTY_REPLY(v)

\* the structure pass exists in server.js only
FinalReply(completion, v) ==
    IF v = "server" THEN enforceMarkdownStructure(ExtractReply(completion, v))
    ELSE ExtractReply(completion, v)

\* res.status(code).json({ reply })
Respond(req, code, text) ==
    [req EXCEPT !.pc = "done", !.sent = @ + 1, !.status = code,
                !.reply = text, !.outbound = <<>>, !.system = Undefined]

\* mutant: the catch block puts error.message into the reply
CatchBlockEcho(req, error) ==
    Respond([req EXCEPT !.error = error], 500,
            ERROR_REPLY(variant) \o <<" ">> \o error.message)

\* catch (error) { console.error(...); res.status(500).json({ reply }) }
CatchBlock(req, error) ==
    Respond([req EXCEPT !.error = error], 500, ERROR_REPLY(variant))

\* app.use((err, req, res, next) => ...): the error middleware
ErrorMiddleware(req, err) ==
    Respond([req EXCEPT !.error = err], 500, UNHANDLED_REPLY(variant))

\* req and res are garbage once the response is out: an answered request
\* keeps its message and its response for the step that answers it,
\* afterwards only the number of responses it was sent
Forget(req) ==
    IF req.pc = "done"
    THEN [NewReq EXCEPT !.pc = "done", !.sent = req.sent]
    ELSE req

\* the requests after request r moved to record rec
Step(r, rec) == [q \in Rids |-> IF q = r THEN rec ELSE Forget(reqs[q])]

(***************************************************************************)
(* GET /                                                                   *)
(***************************************************************************)
\* mutant: the probe is recorded in the memory
HealthPush ==
    /\ HasMemory(variant)
    /\ lastRoute' = "GET /"
    /\ chatMemory' = pushToMemory(chatMemory, Turn("system", <<"o", "k">>, 0))
    /\ UNCHANGED <<fnCall, variant, scope, reqs, pushed, calls>>

Health ==
    /\ HasMemory(variant)
    /\ lastRoute' = "GET /"
    /\ UNCHANGED <<fnCall, variant, scope, chatMemory, reqs, pushed, calls>>

(***************************************************************************)
(* POST /chat of server.js and of the render variant, up to the await.     *)
(***************************************************************************)
\* mutant: the system prompt is stored in the memory ahead of the user turn
PostChatKeepSystem(r, message, system) ==
    /\ HasMemory(variant)
    /\ IsNext(r)
    /\ ~InvalidMessage(message)
    /\ ~SanitizeThrows(system)
    /\ Cardinality(InFlight) < MaxInFlight
    /\ LET arrived == [reqs[r] EXCEPT !.message = message, !.system = system]
           userTurn == Turn("user", sanitize(message.s), r)
           kept == IF SystemPrompt(system) # <<>>
                   THEN pushToMemory(chatMemory,
                                     Turn("system", SystemPrompt(system), r))
                   ELSE chatMemory
           memory == pushToMemory(kept, userTurn)
       IN  /\ chatMemory' = memory
           /\ pushed' = Append(pushed, Id(userTurn))
           /\ calls' = calls + 1
           /\ reqs' = Step(r, [arrived EXCEPT !.pc = "await",
                                              !.outbound = memory])
    /\ lastRoute' = "POST /chat"
    /\ UNCHANGED <<fnCall, variant, scope>>

PostChat(r, message, system) ==
    /\ HasMemory(variant)
    /\ IsNext(r)
    /\ LET arrived == [reqs[r] EXCEPT !.message = message, !.system = system]
       IN  IF InvalidMessage(message)
           THEN /\ reqs' = Step(r, Respond(arrived, 400,
                                               INVALID_REPLY(variant)))
                /\ UNCHANGED <<chatMemory, pushed, calls>>
           ELSE IF SanitizeThrows(system)
           THEN /\ reqs' = Step(r, CatchBlock(arrived, REPLACE_TYPE_ERROR))
                /\ UNCHANGED <<chatMemory, pushed, calls>>
           ELSE LET userTurn == Turn("user", sanitize(message.s), r)
                    memory == pushToMemory(chatMemory, userTurn)
                IN  /\ Cardinality(InFlight) < MaxInFlight
                    /\ chatMemory' = memory
                    /\ pushed' = Append(pushed, Id(userTurn))
                    /\ calls' = calls + 1
                    /\ reqs' = Step(r,
                          [arrived EXCEPT
                             !.pc = "await",
                             !.outbound = BuildMessages(SystemPrompt(system),
                                                        memory, r)])
    /\ lastRoute' = "POST /chat"
    /\ UNCHANGED <<fnCall, variant, scope>>

\* mutant: the reply is stored as the provider gave it, before the
\* structure pass
ResolveStoreRaw(r, completion) ==
    /\ HasMemory(variant)
    /\ reqs[r].pc = "await"
    /\ LET aiReply == FinalReply(completion, variant)
           turn == Turn("assistant", ExtractReply(completion, variant), r)
       IN  /\ chatMemory' = pushToMemory(chatMemory, turn)
           /\ pushed' = Append(pushed, Id(turn))
           /\ reqs' = Step(r, Respond([reqs[r] EXCEPT !.outcome = completion],
                                      200, aiReply))
    /\ lastRoute' = "POST /chat"
    /\ UNCHANGED <<fnCall, variant, scope, calls>>

\* the provider call resolves: reply extraction, structure pass, second push
Resolve(r, completion) ==
    /\ HasMemory(variant)
    /\ reqs[r].pc = "await"
    /\ LET aiReply == FinalReply(completion, variant)
           turn == Turn("assistant", aiReply, r)
       IN  /\ chatMemory' = pushToMemory(chatMemory, turn)
           /\ pushed' = Append(pushed, Id(turn))
           /\ reqs' = Step(r, Respond([reqs[r] EXCEPT !.outcome = completion],
                                      200, aiReply))
    /\ lastRoute' = "POST /chat"
    /\ UNCHANGED <<fnCall, variant, scope, calls>>

\* mutant: the catch block takes the user turn of the request back out
RejectRollback(r) ==
    /\ HasMemory(variant)
    /\ reqs[r].pc = "await"
    /\ \E error \in ProviderErrors :
          reqs' = Step(r, CatchBlock([reqs[r] EXCEPT !.outcome = Rejected],
                                     error))
    /\ chatMemory' = SelectSeq(chatMemory,
                               LAMBDA t : ~(t.role = "user" /\ t.rid = r))
    /\ lastRoute' = "POST /chat"
    /\ UNCHANGED <<fnCall, variant, scope, pushed, calls>>

\* mutant: the catch block only logs
RejectSilent(r) ==
    /\ HasMemory(variant)
    /\ reqs[r].pc = "await"
    /\ reqs' = Step(r, [reqs[r] EXCEPT !.pc = "done", !.outcome = Rejected,
                                       !.outbound = <<>>])
    /\ lastRoute' = "POST /chat"
    /\ UNCHANGED <<fnCall, variant, scope, chatMemory, pushed, calls>>

\* the provider call rejects: the catch block
Reject(r) ==
    /\ HasMemory(variant)
    /\ reqs[r].pc = "await"
    /\ \E error \in ProviderErrors :
          reqs' = Step(r, CatchBlock([reqs[r] EXCEPT !.outcome = Rejected],
                                     error))
    /\ lastRoute' = "POST /chat"
    /\ UNCHANGED <<fnCall, variant, scope, chatMemory, pushed, calls>>

\* express.json() fails on the body: the error middleware answers
GlobalErrorHandler(r) ==
    /\ HasMemory(variant)
    /\ IsNext(r)
    /\ reqs' = Step(r, ErrorMiddleware([reqs[r] EXCEPT !.message = Unparsed,
                                                        !.system = Unparsed],
                                        BODY_PARSE_ERROR))
    /\ lastRoute' = "POST /chat"
    /\ UNCHANGED <<fnCall, variant, scope, chatMemory, pushed, calls>>

(***************************************************************************)
(* POST /chat of the static-hosting variant.                               *)
(***************************************************************************)
StaticMessages(message, r) ==
    <<Turn("system", PERSONA, 0), Turn("user", Wire(message), r)>>

PostChatStatic(r, message, system) ==
    /\ variant = "static"
    /\ IsNext(r)
    /\ LET arrived == [reqs[r] EXCEPT !.message = message, !.system = system]
       IN  IF ~Truthy(message)
           THEN /\ reqs' = Step(r, Respond(arrived, 400,
                                               INVALID_REPLY(variant)))
                /\ UNCHANGED calls
           ELSE /\ Cardinality(InFlight) < MaxInFlight
                /\ calls' = calls + 1
                /\ reqs' = Step(r,
                      [arrived EXCEPT !.pc = "await",
                                      !.outbound = StaticMessages(message, r)])
    /\ lastRoute' = "POST /chat"
    /\ UNCHANGED <<fnCall, variant, scope, chatMemory, pushed>>

\* completion.choices without '?.': an undefined completion is a TypeError
ResolveStatic(r, completion) ==
    /\ variant = "static"
    /\ reqs[r].pc = "await"
    /\ reqs' = Step(r,
          LET settled == [reqs[r] EXCEPT !.outcome = completion]
          IN  IF completion.kind = "undefined"
              THEN CatchBlock(settled, CHOICES_TYPE_ERROR)
              ELSE Respond(settled, 200, ExtractReply(completion, variant)))
    /\ lastRoute' = "POST /chat"
    /\ UNCHANGED <<fnCall, variant, scope, chatMemory, pushed, calls>>

RejectStatic(r) ==
    /\ variant = "static"
    /\ reqs[r].pc = "await"
    /\ \E error \in ProviderErrors :
          reqs' = Step(r, CatchBlock([reqs[r] EXCEPT !.outcome = Rejected],
                                     error))
    /\ lastRoute' = "POST /chat"
    /\ UNCHANGED <<fnCall, variant, scope, chatMemory, pushed, calls>>

Next ==
    \/ Health
    \/ \E r \in Rids, m \in Messages, sy \in Systems : PostChat(r, m, sy)
    \/ \E r \in InFlight, c \in Completions : Resolve(r, c)
    \/ \E r \in Rids : Reject(r)
    \/ \E r \in Rids : GlobalErrorHandler(r)
    \/ \E r \in Rids, m \in Messages, sy \in Systems : PostChatStatic(r, m, sy)
    \/ \E r \in InFlight, c \in Completions : ResolveStatic(r, c)
    \/ \E r \in Rids : RejectStatic(r)

Spec == Init /\ [][Next]_vars

\* Once issued, a provider call runs to completion or failure.
Settle(r) ==
    \/ Reject(r)
    \/ RejectStatic(r)
    \/ \E c \in Completions : Resolve(r, c)
    \/ \E c \in Completions : ResolveStatic(r, c)

FairSpec == Spec /\ \A r \in Rids : WF_vars(Settle(r))

(***************************************************************************)
(* One chat request answered with any of the texts.                        *)
(***************************************************************************)
TextInit ==
    /\ variant \in Variants
    /\ scope = "texts"
    /\ chatMemory = <<>>
    /\ reqs = [r \in Rids |-> NewReq]
    /\ pushed = <<>>
    /\ calls = 0
    /\ lastRoute = "none"
    /\ fnCall = NoCall

TextSpec == TextInit /\ [][Next]_vars

(***************************************************************************)
(* Direct calls of the two text functions.  The argument is drawn from the *)
(* texts made of up to MaxPieces pieces, plus the examples the             *)
(* specification names; the action is the call returning.                  *)
(***************************************************************************)
SanitizePieces ==
    { SCRIPT_OPEN, <<">">>, SCRIPT_CLOSE,
      <<"<", "/", "S", "C", "R", "I", "P", "T", ">">>,
      <<" ">>, <<"\n">>, <<"a">> }

SCRIPT_HELLO ==
    <<"<", "s", "c", "r", "i", "p", "t", ">", "a", "l", "e", "r", "t", "(",
    "1", ")", "<", "/", "s", "c", "r", "i", "p", "t", ">", "h", "e", "l", "l",
    "o">>
B_HI == <<"<", "b", ">", "h", "i", "<", "/", "b", ">">>

SanitizeInputs ==
    Concats(SanitizePieces, MaxPieces) \cup {SCRIPT_HELLO, B_HI}

Called(fn, text) == [fn |-> fn, arg |-> text, ret |-> <<>>, pc |-> "called"]

UnitInit ==
    /\ variant = "server"
    /\ scope = "wide"
    /\ chatMemory = <<>>
    /\ reqs = [r \in Rids |-> NewReq]
    /\ pushed = <<>>
    /\ calls = 0
    /\ lastRoute = "none"
    /\ fnCall \in {Called("sanitize", t) : t \in SanitizeInputs}
                  \cup {Called("enforce", t) : t \in EnforceInputs}

SanitizeReturn ==
    /\ fnCall.fn = "sanitize"
    /\ fnCall.pc = "called"
    /\ fnCall' = [fnCall EXCEPT !.ret = sanitize(fnCall.arg),
                                !.pc = "returned"]
    /\ UNCHANGED <<variant, scope, chatMemory, reqs, pushed, calls,
                   lastRoute>>

EnforceReturn ==
    /\ fnCall.fn = "enforce"
    /\ fnCall.pc = "called"
    /\ fnCall' = [fnCall EXCEPT !.ret = enforceMarkdownStructure(fnCall.arg),
                                !.pc = "returned"]
    /\ UNCHANGED <<variant, scope, chatMemory, reqs, pushed, calls,
                   lastRoute>>

UnitNext ==
    \/ SanitizeReturn
    \/ EnforceReturn

UnitSpec == UnitInit /\ [][UnitNext]_vars

(***************************************************************************)
(* Properties.                                                             *)
(***************************************************************************)
\* a request answered in the step that led to this state
Fresh(r) == reqs[r].pc = "done" /\ reqs[r].status # 0

\* identities of the turns in the buffer, oldest first
MemoryIds == [i \in 1..Len(chatMemory) |-> Id(chatMemory[i])]

\* the last n elements of a sequence (all of it when it is shorter)
LastN(seq, n) ==
    IF Len(seq) <= n THEN seq ELSE SubSeq(seq, Len(seq) - n + 1, Len(seq))

\* C1: in every reachable state the shared Memory Buffer holds at most 6
\* turns, whatever requests were handled and however they interleaved.
C1_MemoryBounded == Len(chatMemory) <= 6

\* C1 witness: the buffer is full and a turn has already been evicted
C1_Witness == Len(chatMemory) = 6 /\ Len(pushed) > 6

\* C2: eviction is strictly FIFO.  Every push appends the new turn as last
\* element; it removes exactly the front turn when the buffer already held 6
\* turns and nothing otherwise; so the buffer always equals the last
\* min(n, 6) pushed turns in push order.
C2_PushStep ==
    Len(pushed') = Len(pushed) + 1 =>
        LET new == chatMemory'[Len(chatMemory')]
        IN  /\ Id(new) = pushed'[Len(pushed')]
            /\ chatMemory' = (IF Len(chatMemory) = 6 THEN Tail(chatMemory)
                              ELSE chatMemory) \o <<new>>

C2_Fifo ==
    /\ [](HasMemory(variant) => MemoryIds = LastN(pushed, 6))
    /\ [][C2_PushStep]_vars

\* C2 witness: two turns were evicted and the buffer holds the six newest
C2_Witness ==
    /\ Len(pushed) >= 8
    /\ Len(chatMemory) = 6
    /\ Id(chatMemory[1]) = pushed[Len(pushed) - 5]
    /\ Id(chatMemory[6]) = pushed[Len(pushed)]

\* what the claims call a message that is absent, empty or not a string
AbsentEmptyOrNonString(m) ==
    \/ m.t = "undefined"
    \/ m.t = "string" /\ m.s = <<>>
    \/ m.t = "number"

\* C3: in server.js and the render variant a POST /chat whose message is
\* absent, empty or not a string is answered 400, leaves the Memory Buffer
\* exactly as it was and invokes no provider call.
C3_Step ==
    \A r \in Rids :
        (/\ HasMemory(variant)
         /\ reqs[r].pc = "new"
         /\ reqs'[r].pc # "new"
         /\ AbsentEmptyOrNonString(reqs'[r].message))
        => /\ reqs'[r].pc = "done"
           /\ reqs'[r].status = 400
           /\ reqs'[r].sent = 1
           /\ reqs'[r].outbound = <<>>
           /\ chatMemory' = chatMemory
           /\ pushed' = pushed
           /\ calls' = calls

C3_InvalidRejected == [][C3_Step]_vars

\* C3 witness: message: 123 was just answered 400 while the buffer holds
\* turns and another request is waiting for the provider
C3_Witness ==
    \E r \in Rids :
        /\ HasMemory(variant)
        /\ Fresh(r)
        /\ reqs[r].message = Num(123)
        /\ reqs[r].status = 400
        /\ chatMemory # <<>>
        /\ InFlight # {}

\* position of a turn in the push history (0: never pushed)
PushIndex(role, r) ==
    LET at == {i \in 1..Len(pushed) : pushed[i] = [role |-> role, rid |-> r]}
    IN  IF at = {} THEN 0 ELSE Min(at)

UserTurnInMemory(mem, r) ==
    \E i \in 1..Len(mem) : mem[i].role = "user" /\ mem[i].rid = r

\* request r is answered by the catch block after its provider call rejected
RejectedStep(r) ==
    /\ HasMemory(variant)
    /\ reqs[r].pc = "await"
    /\ reqs'[r].pc = "done"
    /\ reqs'[r].outcome = Rejected

\* C4 as stated: whenever the provider call of a request rejects, in any
\* interleaving, the response is 500 with the fixed reply and the user turn
\* of the request is still in the Memory Buffer when the 500 is sent.
C4_Step ==
    \A r \in Rids :
        RejectedStep(r)
        => /\ reqs'[r].status = 500
           /\ reqs'[r].reply = ERROR_REPLY(variant)
           /\ UserTurnInMemory(chatMemory', r)

C4_Original == [][C4_Step]_vars

\* C4 amended: the response is 500 with the fixed reply, the failure path
\* leaves the buffer as it was, and the user turn of the request is still in
\* the buffer exactly when fewer than 6 turns were pushed after it.
C4_AmendedStep ==
    \A r \in Rids :
        RejectedStep(r)
        => /\ reqs'[r].status = 500
           /\ reqs'[r].sent = 1
           /\ reqs'[r].reply = ERROR_REPLY(variant)
           /\ chatMemory' = chatMemory
           /\ PushIndex("user", r) > 0
           /\ UserTurnInMemory(chatMemory', r)
                <=> Len(pushed) - PushIndex("user", r) < 6

C4_Amended == [][C4_AmendedStep]_vars

\* C4 witness: a rejected request was just answered 500; its user turn is
\* in the buffer, followed by turns other requests pushed in the meantime
C4_Witness ==
    \E r \in Rids :
        /\ Fresh(r)
        /\ reqs[r].outcome = Rejected
        /\ reqs[r].status = 500
        /\ \E i, j \in 1..Len(chatMemory) :
              /\ i < j
              /\ chatMemory[i].role = "user" /\ chatMemory[i].rid = r
              /\ chatMemory[j].rid # r

\* the caller put a system field into the body
SystemSupplied(req) == req.system.t \in {"string", "number"}

SystemEntries(list) == {i \in 1..Len(list) : list[i].role = "system"}

\* C5 as stated: for a request of server.js or the render variant that
\* reached the provider call, a supplied system value makes the first
\* outbound entry the system entry with content sanitize(system), and
\* without one the outbound list has no system entry.
C5_Original ==
    \A r \in InFlight :
        HasMemory(variant)
        => IF SystemSupplied(reqs[r])
           THEN /\ reqs[r].outbound[1].role = "system"
                /\ reqs[r].outbound[1].content = sanitize(reqs[r].system.s)
           ELSE SystemEntries(reqs[r].outbound) = {}

\* C5 amended: a supplied system value whose sanitized text is not empty
\* makes the first outbound entry (and no other) the system entry with
\* content sanitize(system); when none is supplied or its sanitized text is
\* empty the outbound list has no system entry.
C5_Amended ==
    \A r \in InFlight :
        HasMemory(variant)
        => IF SystemSupplied(reqs[r]) /\ sanitize(reqs[r].system.s) # <<>>
           THEN /\ SystemEntries(reqs[r].outbound) = {1}
                /\ reqs[r].outbound[1].content = sanitize(reqs[r].system.s)
           ELSE SystemEntries(reqs[r].outbound) = {}

\* C5 witness: "Be <i>brief</i>" was supplied and heads the outbound list
\* as "Be ibrief/i", ahead of turns of the memory
C5_Witness ==
    \E r \in InFlight :
        /\ HasMemory(variant)
        /\ Len(reqs[r].outbound) >= 3
        /\ reqs[r].outbound[1] =
              Turn("system",
                   <<"B", "e", " ", "i", "b", "r", "i", "e", "f", "/", "i">>, r)

\* the provider call resolved without first-choice content
NoFirstChoiceContent(o) ==
    \/ o.kind \in {"undefined", "nochoices"}
    \/ o.kind = "content" /\ o.content = <<>>

\* C6 as stated: a provider call that returns a malformed or empty response
\* is answered 500 with the generic retry reply, not 200.
C6_Original ==
    \A r \in Rids :
        (HasMemory(variant) /\ Fresh(r) /\ NoFirstChoiceContent(reqs[r].outcome))
        => /\ reqs[r].status = 500
           /\ reqs[r].reply = ERROR_REPLY(variant)

\* C6 amended: in server.js and the render variant a provider call that
\* resolves without first-choice content is not an error: it is answered
\* 200 with the literal empty-response text of the variant, which is also
\* pushed as the assistant turn.
C6_Amended ==
    \A r \in Rids :
        (HasMemory(variant) /\ Fresh(r) /\ NoFirstChoiceContent(reqs[r].outcome))
        => /\ reqs[r].status = 200
           /\ reqs[r].sent = 1
           /\ reqs[r].reply = EMPTY_REPLY(variant)
           /\ chatMemory[Len(chatMemory)] =
                 Turn("assistant", EMPTY_REPLY(variant), r)

\* C6 witness: an object without choices came back and was answered 200
C6_Witness ==
    \E r \in Rids :
        /\ HasMemory(variant)
        /\ Fresh(r)
        /\ reqs[r].outcome = NoChoices
        /\ reqs[r].status = 200

\* C7: serving GET / changes neither the content nor the length of the
\* Memory Buffer and invokes no provider call, however it interleaves with
\* chat requests.
C7_Step ==
    lastRoute' = "GET /"
    => /\ chatMemory' = chatMemory
       /\ pushed' = pushed
       /\ calls' = calls
       /\ \A r \in Rids : reqs'[r].pc = reqs[r].pc

C7_HealthFrame == [][C7_Step]_vars

\* C7 witness: a probe was served while the buffer held turns and a chat
\* request was waiting for the provider
C7_Witness == lastRoute = "GET /" /\ chatMemory # <<>> /\ InFlight # {}

\* C8: for every request its user turn is pushed before its assistant turn:
\* in the push history and, whenever both are in the buffer, in the buffer.
OwnOrder(seq) ==
    \A i, j \in 1..Len(seq) :
        (/\ seq[i].rid = seq[j].rid
         /\ seq[i].role = "user"
         /\ seq[j].role = "assistant") => i < j

C8_OwnPushOrder == OwnOrder(chatMemory) /\ OwnOrder(pushed)

\* requests a and b overlapped: each was called before the other answered
Overlapped(a, b) ==
    /\ PushIndex("assistant", a) > 0 /\ PushIndex("assistant", b) > 0
    /\ PushIndex("user", a) < PushIndex("assistant", b)
    /\ PushIndex("user", b) < PushIndex("assistant", a)

\* C8 witness: both cross-request orders have happened: of two overlapping
\* requests the one called first answered first, and of two others the one
\* called first answered last
C8_Witness ==
    /\ \E a, b \in Rids :
          /\ a < b /\ Overlapped(a, b)
          /\ PushIndex("assistant", a) < PushIndex("assistant", b)
    /\ \E a, b \in Rids :
          /\ a < b /\ Overlapped(a, b)
          /\ PushIndex("assistant", b) < PushIndex("assistant", a)
    /\ \E i, j \in 1..Len(chatMemory) :
          /\ i + 1 < j
          /\ chatMemory[i].rid = chatMemory[j].rid

\* C9: every POST /chat gets exactly one response, with status 200, 400 or
\* 500, and a request whose provider call is pending is eventually answered.
\* A handler leaves the await only by answering and a behaviour has finitely
\* many requests, so "every pending request is eventually answered" is
\* "again and again no request is pending".
C9_Safety ==
    \A r \in Rids :
        /\ reqs[r].sent <= 1
        /\ reqs[r].pc = "done" => reqs[r].sent = 1
        /\ reqs[r].pc # "done" => reqs[r].sent = 0
        /\ Fresh(r) => reqs[r].status \in {200, 400, 500}

C9_AnswerStep ==
    \A r \in Rids :
        reqs'[r].sent > reqs[r].sent
        => /\ reqs[r].pc \in {"new", "await"}
           /\ reqs'[r].pc = "done"
           /\ reqs'[r].status \in {200, 400, 500}

C9_OneResponse ==
    /\ []C9_Safety
    /\ [][C9_AnswerStep]_vars
    /\ []<>(InFlight = {})

\* C9 witness: a request that waited for the provider was answered while
\* another one is still waiting
C9_Witness ==
    \E r \in Rids :
        /\ Fresh(r)
        /\ reqs[r].outcome # Pending
        /\ reqs[r].sent = 1
        /\ InFlight # {}

\* C10 as stated, for every variant: when the caller supplies a system
\* prompt (here: one whose sanitized text is not empty), the outbound list
\* has the sanitized prompt as its system entry and no server-owned system
\* message (a system entry of rid 0).
C10_Original ==
    \A r \in InFlight :
        (reqs[r].system.t = "string" /\ sanitize(reqs[r].system.s) # <<>>)
        => /\ \E i \in SystemEntries(reqs[r].outbound) :
                 reqs[r].outbound[i].content = sanitize(reqs[r].system.s)
           /\ \A i \in SystemEntries(reqs[r].outbound) :
                 reqs[r].outbound[i].rid # 0

\* the response as the caller sees it
Response(req) == [status |-> req.status, reply |-> req.reply]

\* C11: the 500 response does not depend on the error.  Whatever was thrown
\* or rejected inside the handler, the caller gets status 500 and the fixed
\* reply of the catch block (the fixed reply of the error middleware when
\* the body could not be parsed), and the error's message is no part of it.
C11_ErrorIndependent ==
    \A r \in Rids :
        /\ (Fresh(r) /\ reqs[r].error # NoError) =>
              /\ Response(reqs[r]) =
                    [status |-> 500,
                     reply |-> IF reqs[r].message = Unparsed
                               THEN UNHANDLED_REPLY(variant)
                               ELSE ERROR_REPLY(variant)]
              /\ ~Includes(reqs[r].reply, reqs[r].error.message)
        /\ (Fresh(r) /\ reqs[r].status = 500) => reqs[r].error # NoError

\* C11 witness: a provider call rejected with the authentication error (the
\* connection error is the other rejection explored) and was answered 500
C11_Witness ==
    \E r \in Rids :
        /\ Fresh(r)
        /\ reqs[r].outcome = Rejected
        /\ reqs[r].error = AUTH_ERROR
        /\ reqs[r].status = 500

(***************************************************************************)
(* The sanitizing rule as the specification words it: remove script-tag    *)
(* blocks, then remove every remaining '<' and '>', then trim.  A block    *)
(* runs from "<script" through the next '>' to the next "</script>",       *)
(* whatever the case of the letters and whatever lies in between.          *)
(***************************************************************************)
FirstAtOrAfter(S, i) ==
    IF {k \in S : k >= i} = {} THEN 0 ELSE Min({k \in S : k >= i})

\* index of the last character of the block that starts at i, 0 if none
BlockEnd(s, i) ==
    LET gt == FirstAtOrAfter({j \in 1..Len(s) : s[j] = ">"},
                             i + Len(SCRIPT_OPEN))
        close == FirstAtOrAfter(
                     {k \in 1..Len(s) : MatchAt(s, k, SCRIPT_CLOSE, TRUE)},
                     gt + 1)
    IN  IF MatchAt(s, i, SCRIPT_OPEN, TRUE) /\ gt > 0 /\ close > 0
        THEN close + Len(SCRIPT_CLOSE) - 1
        ELSE 0

RECURSIVE RemoveBlocks(_, _)
RemoveBlocks(s, i) ==
    IF i > Len(s) THEN <<>>
    ELSE IF BlockEnd(s, i) > 0 THEN RemoveBlocks(s, BlockEnd(s, i) + 1)
    ELSE <<s[i]>> \o RemoveBlocks(s, i + 1)

RECURSIVE RemoveAngles(_)
RemoveAngles(s) ==
    IF s = <<>> THEN <<>>
    ELSE (IF Head(s) \in {"<", ">"} THEN <<>> ELSE <<Head(s)>>)
         \o RemoveAngles(Tail(s))

RECURSIVE TrimStart(_)
TrimStart(s) ==
    IF s # <<>> /\ Head(s) \in WhiteSpace THEN TrimStart(Tail(s)) ELSE s

RECURSIVE TrimEnd(_)
TrimEnd(s) ==
    IF s # <<>> /\ s[Len(s)] \in WhiteSpace
    THEN TrimEnd(SubSeq(s, 1, Len(s) - 1))
    ELSE s

LiteralRule(text) == TrimEnd(TrimStart(RemoveAngles(RemoveBlocks(text, 1))))

SanitizeReturned == fnCall.fn = "sanitize" /\ fnCall.pc = "returned"

\* C12 as stated: for every input, sanitize returns what the literal rule
\* gives; the result has no '<' or '>' and no leading or trailing
\* whitespace; sanitize("<script>alert(1)</script>hello") is "hello" and
\* sanitize("") is "".
C12_Original ==
    SanitizeReturned
    => /\ fnCall.ret = LiteralRule(fnCall.arg)
       /\ \A i \in 1..Len(fnCall.ret) : fnCall.ret[i] \notin {"<", ">"}
       /\ fnCall.ret # <<>> =>
             /\ fnCall.ret[1] \notin WhiteSpace
             /\ fnCall.ret[Len(fnCall.ret)] \notin WhiteSpace
       /\ fnCall.arg = SCRIPT_HELLO => fnCall.ret = <<"h", "e", "l", "l", "o">>
       /\ fnCall.arg = <<>> => fnCall.ret = <<>>

\* C13 as stated: sanitize("<b>hi</b>") yields "hib".
C13_Original ==
    (SanitizeReturned /\ fnCall.arg = B_HI) => fnCall.ret = <<"h", "i", "b">>

\* C13 amended: sanitize("<b>hi</b>") yields "bhi/b": only the four angle
\* brackets are removed, the tag names and the slash stay.
C13_Amended ==
    (SanitizeReturned /\ fnCall.arg = B_HI)
    => fnCall.ret = <<"b", "h", "i", "/", "b">>

\* C13 witness: sanitize("<b>hi</b>") has returned
C13_Witness ==
    /\ SanitizeReturned
    /\ fnCall.arg = B_HI
    /\ Len(fnCall.ret) = Len(B_HI) - 4

(***************************************************************************)
(* The structure rule as the specification words it.  A separator is one   *)
(* of '.', '?', '!' followed by whitespace, together with all the          *)
(* whitespace that follows it; the non-empty fragments are the maximal     *)
(* stretches of text outside the separators.                               *)
(***************************************************************************)
HasMarker(t) ==
    \E i \in 1..(Len(t) - 1) :
        <<t[i], t[i + 1]>> \in {<<"#", "#">>, <<"-", " ">>, <<"*", "*">>}

InSeparator(t, k) ==
    \/ t[k] \in Punct /\ k < Len(t) /\ t[k + 1] \in WhiteSpace
    \/ /\ t[k] \in WhiteSpace
       /\ \E i \in 1..(k - 1) :
             t[i] \in Punct /\ \A m \in (i + 1)..k : t[m] \in WhiteSpace

FragmentStarts(t) ==
    {k \in 1..Len(t) :
        ~InSeparator(t, k) /\ (k = 1 \/ InSeparator(t, k - 1))}

FragmentEnd(t, a) ==
    CHOOSE b \in a..Len(t) :
        /\ \A m \in a..b : ~InSeparator(t, m)
        /\ b = Len(t) \/ InSeparator(t, b + 1)

RECURSIVE BulletLines(_, _)
\* one line "- fragment" per fragment that starts at or after k, in order
BulletLines(t, k) ==
    IF FirstAtOrAfter(FragmentStarts(t), k) = 0 THEN <<>>
    ELSE LET a == FirstAtOrAfter(FragmentStarts(t), k)
             b == FragmentEnd(t, a)
         IN  <<"-", " ">> \o TrimEnd(TrimStart(SubSeq(t, a, b))) \o <<"\n">>
             \o BulletLines(t, b + 1)

EnforceReturned == fnCall.fn = "enforce" /\ fnCall.pc = "returned"

\* C14: enforceMarkdownStructure returns a text that contains "##", "- "
\* or "**" unchanged ("**bold**" is returned as it is); for any other
\* non-empty text it returns the fixed heading line followed by exactly one
\* line "- " + trimmed fragment per non-empty fragment of the split on '.',
\* '?' or '!' followed by whitespace, in the original order ("A. B. C."
\* gives the heading and the three bullets A, B and C.).
C14_Enforcer ==
    EnforceReturned
    => /\ HasMarker(fnCall.arg) => fnCall.ret = fnCall.arg
       /\ (~HasMarker(fnCall.arg) /\ fnCall.arg # <<>>) =>
             fnCall.ret = HEADING \o BulletLines(fnCall.arg, 1)
       /\ fnCall.arg = BOLD => fnCall.ret = BOLD
       /\ fnCall.arg = A_B_C =>
             fnCall.ret = HEADING \o <<"-", " ", "A", "\n", "-", " ", "B", "\n",
                                        "-", " ", "C", ".", "\n">>

\* C14 witness: "A. B. C." was converted and has three fragments
C14_Witness ==
    /\ EnforceReturned
    /\ fnCall.arg = A_B_C
    /\ Cardinality(FragmentStarts(fnCall.arg)) = 3
    /\ Len(fnCall.ret) = Len(HEADING) + 13

\* the provider call of request r is issued in this step
Issued(r) == HasMemory(variant) /\ reqs[r].pc = "new" /\ reqs'[r].pc = "await"

\* C15: the outbound list is assembled atomically with the user push.  In
\* the step that issues the provider call the list is the optional system
\* entry followed by the Memory Buffer as it is then, ending with the
\* sanitized user turn of the request itself, at most 7 entries; while the
\* call is pending the list stays as it is, so no turn another request
\* pushes can come after the user turn of the request.
C15_IssueStep ==
    \A r \in Rids :
        Issued(r) =>
            LET out == reqs'[r].outbound
                own == Turn("user", sanitize(reqs'[r].message.s), r)
            IN  /\ out # <<>>
                /\ out = chatMemory' \/ Tail(out) = chatMemory'
                /\ SystemEntries(out) \subseteq {1}
                /\ out[Len(out)] = own
                /\ Len(out) <= 7

C15_PendingStep ==
    \A r \in Rids :
        (HasMemory(variant) /\ reqs[r].pc = "await" /\ reqs'[r].pc = "await")
        => reqs'[r].outbound = reqs[r].outbound

C15_Pending ==
    \A r \in InFlight :
        HasMemory(variant) =>
            /\ Len(reqs[r].outbound) \in 1..7
            /\ reqs[r].outbound[Len(reqs[r].outbound)]
                  = Turn("user", sanitize(reqs[r].message.s), r)

C15_AtomicOutbound ==
    /\ [][C15_IssueStep]_vars
    /\ [][C15_PendingStep]_vars
    /\ []C15_Pending

\* C15 witness: a pending request was sent 7 entries (system entry and a
\* full buffer) and another request has pushed a turn since
C15_Witness ==
    \E r \in InFlight :
        /\ HasMemory(variant)
        /\ Len(reqs[r].outbound) = 7
        /\ reqs[r].outbound[1].role = "system"
        /\ chatMemory[Len(chatMemory)].rid # r
        /\ chatMemory[Len(chatMemory) - 1] = reqs[r].outbound[7]

\* request r is answered in this step
Answered(r) == reqs[r].pc # "done" /\ reqs'[r].pc = "done"

\* the text the handler makes of a resolved provider call: the first
\* choice's content, or the literal of the variant when there is none, and
\* in server.js the structure pass over it
ExpectedReply(o) ==
    LET text == IF NoFirstChoiceContent(o) THEN EMPTY_REPLY(variant)
                ELSE o.content
    IN  IF variant = "server" THEN enforceMarkdownStructure(text) ELSE text

\* C16: in server.js and the render variant a request answered 200 is
\* answered in the step that pushes its assistant turn, and the reply is
\* exactly the content of that turn: the first choice's content (or the
\* literal fallback) after the structure pass where there is one.  Only
\* requests answered 200 push an assistant turn: a step that answers 400 or
\* 500 pushes nothing.
C16_AnswerStep ==
    \A r \in Rids :
        (HasMemory(variant) /\ Answered(r)) =>
            IF reqs'[r].status = 200
            THEN /\ pushed' = Append(pushed, [role |-> "assistant", rid |-> r])
                 /\ chatMemory'[Len(chatMemory')] =
                       Turn("assistant", reqs'[r].reply, r)
                 /\ reqs'[r].reply = ExpectedReply(reqs'[r].outcome)
            ELSE /\ reqs'[r].status \in {400, 500}
                 /\ pushed' = pushed
                 /\ chatMemory' = chatMemory

C16_PushStep ==
    \A r \in Rids :
        (Len(pushed') > Len(pushed)
           /\ pushed'[Len(pushed')] = [role |-> "assistant", rid |-> r])
        => Answered(r) /\ reqs'[r].status = 200

C16_ReplyIsAssistantTurn ==
    [][C16_AnswerStep]_vars /\ [][C16_PushStep]_vars

\* C16 witness: server.js answered 200 with the bulleted form of the
\* provider's "A. B. C.", which is also the newest turn of the buffer
C16_Witness ==
    \E r \in Rids :
        /\ variant = "server"
        /\ Fresh(r)
        /\ reqs[r].status = 200
        /\ reqs[r].outcome = Content(A_B_C)
        /\ reqs[r].reply # A_B_C
        /\ chatMemory[Len(chatMemory)] = Turn("assistant", reqs[r].reply, r)

\* the list holds a turn of the given role that request a created
HasTurnOf(list, role, a) ==
    \E i \in 1..Len(list) : list[i].role = role /\ list[i].rid = a

\* C17: the buffer is shared by all callers and nothing is filtered by
\* caller: when a provider call is issued, every turn the buffer held and
\* the push did not evict is in the outbound list, whichever request it came
\* from.  So there are interleavings of requests in which the list sent for
\* one request holds user and assistant turns that originated from another
\* (the witness).
C17_IssueStep ==
    \A r \in Rids :
        Issued(r) =>
            \A i \in 1..Len(chatMemory) :
                (Len(chatMemory) < 6 \/ i > 1)
                => \E j \in 1..Len(reqs'[r].outbound) :
                       reqs'[r].outbound[j] = chatMemory[i]

C17_SharedContext == [][C17_IssueStep]_vars

\* C17 witness: the list sent for pending request b holds the user turn and
\* the assistant turn of an answered request a, and the user turn of a
\* request c that is pending at the same time
C17_Witness ==
    \E b \in InFlight :
        /\ HasMemory(variant)
        /\ \E a \in Rids \ InFlight :
              /\ HasTurnOf(reqs[b].outbound, "user", a)
              /\ HasTurnOf(reqs[b].outbound, "assistant", a)
        /\ \E c \in InFlight \ {b} :
              HasTurnOf(reqs[b].outbound, "user", c)

\* C18 as stated: every user turn in the Memory Buffer, and every user
\* message in a list sent to the provider, has non-empty content.
C18_Original ==
    /\ \A i \in 1..Len(chatMemory) :
          chatMemory[i].role = "user" => chatMemory[i].content # <<>>
    /\ \A r \in InFlight :
          \A j \in 1..Len(reqs[r].outbound) :
              reqs[r].outbound[j].role = "user"
              => reqs[r].outbound[j].content # <<>>

\* C19: every turn in the Memory Buffer has role user or assistant.  A
\* system prompt appears only in the list sent for the request that supplied
\* it, as its first entry: the list of a request holds no system entry of
\* an earlier or concurrent request.
C19_SystemNotRetained ==
    /\ \A i \in 1..Len(chatMemory) :
          chatMemory[i].role \in {"user", "assistant"}
    /\ \A r \in InFlight :
          HasMemory(variant) =>
              \A j \in SystemEntries(reqs[r].outbound) :
                  /\ j = 1
                  /\ reqs[r].system.t = "string"
                  /\ reqs[r].outbound[j] =
                        Turn("system", sanitize(reqs[r].system.s), r)

\* C19 witness: request a was sent with its system prompt and is pending;
\* request b, without one, was sent a list that holds the user turn of a
\* and no system entry
C19_Witness ==
    \E a, b \in InFlight :
        /\ HasMemory(variant)
        /\ SystemEntries(reqs[a].outbound) = {1}
        /\ reqs[b].system = Undefined
        /\ HasTurnOf(reqs[b].outbound, "user", a)
        /\ SystemEntries(reqs[b].outbound) = {}

\* C20: enforceMarkdownStructure is idempotent: for every text t the
\* provider answers with, enforce(enforce(t)) = enforce(t), because
\* enforce(t) is empty or contains one of "##", "- ", "**"; and every
\* assistant turn server.js stores is empty or contains one of them.
C20_Idempotent ==
    /\ \A r \in Rids :
          (variant = "server" /\ Fresh(r) /\ reqs[r].outcome.kind = "content")
          => LET t == reqs[r].outcome.content
                 once == enforceMarkdownStructure(t)
             IN  /\ enforceMarkdownStructure(once) = once
                 /\ once = <<>> \/ HasMarker(once)
                 /\ t # <<>> => reqs[r].reply = once
    /\ \A i \in 1..Len(chatMemory) :
          (variant = "server" /\ chatMemory[i].role = "assistant")
          => \/ chatMemory[i].content = <<>>
             \/ HasMarker(chatMemory[i].content)

\* C20 witness: the provider answered with an unstructured text that has no
\* fragment at all; server.js stored and returned the bare heading
C20_Witness ==
    \E r \in Rids :
        /\ variant = "server"
        /\ Fresh(r)
        /\ reqs[r].outcome.kind = "content"
        /\ reqs[r].outcome.content # <<>>
        /\ ~HasMarker(reqs[r].outcome.content)
        /\ reqs[r].reply = HEADING
        /\ chatMemory[Len(chatMemory)] = Turn("assistant", HEADING, r)

====
